---------------------------- MODULE Spec2Model ----------------------------
(***************************************************************************)
(* A model of the Wikipedia year-page event extractor of newsforllms       *)
(* (src/wikipedia_scraper.py).                                             *)
(*                                                                         *)
(* A Python str is a sequence of one-character strings, so that the        *)
(* regular expressions, str.replace, str.strip, str.lower and len() of the *)
(* source are computed character by character.  A BeautifulSoup document   *)
(* is a tree: a <ul> is a sequence of <li> items, an item is its own text, *)
(* its reference superscripts and the <ul>s nested in it.  A node is named *)
(* by its path from the document root.                                     *)
(***************************************************************************)
EXTENDS Integers, Sequences, FiniteSets, TLC

(***************************************************************************)
(* Characters and strings                                                  *)
(***************************************************************************)

\* the characters \d matches, within the model's alphabet
Digits == {"0", "1", "2", "3", "4", "5", "6", "7", "8", "9"}

\* the characters \s matches and str.strip() strips, within the model's alphabet
Whitespace == {" ", "\n", "\t"}

DigitVal(c) ==
    CASE c = "0" -> 0 [] c = "1" -> 1 [] c = "2" -> 2 [] c = "3" -> 3
      [] c = "4" -> 4 [] c = "5" -> 5 [] c = "6" -> 6 [] c = "7" -> 7
      [] c = "8" -> 8 [] c = "9" -> 9

UpperCase ==
    <<"A", "B", "C", "D", "E", "F", "G", "H", "I", "J", "K", "L", "M",
      "N", "O", "P", "Q", "R", "S", "T", "U", "V", "W", "X", "Y", "Z">>

LowerCase ==
    <<"a", "b", "c", "d", "e", "f", "g", "h", "i", "j", "k", "l", "m",
      "n", "o", "p", "q", "r", "s", "t", "u", "v", "w", "x", "y", "z">>

\* str.lower() on one character
LowerChar(c) ==
    IF c \in {UpperCase[i] : i \in 1..26}
    THEN LowerCase[CHOOSE i \in 1..26 : UpperCase[i] = c]
    ELSE c

\* str.lower()
Lower(s) == [i \in 1..Len(s) |-> LowerChar(s[i])]

\* the literal lit occurs in s at index i
HasAt(s, i, lit) ==
    /\ i + Len(lit) - 1 <= Len(s)
    /\ \A k \in 1..Len(lit) : s[i + k - 1] = lit[k]

\* `lit in s`
Contains(s, lit) == \E i \in 1..Len(s) : HasAt(s, i, lit)

\* the end (exclusive) of the longest run of characters of class cls that
\* starts at index i: what a greedy cls* consumes
RunEnd(s, i, cls) ==
    CHOOSE j \in i..(Len(s) + 1) :
        /\ \A k \in i..(j - 1) : s[k] \in cls
        /\ (j = Len(s) + 1 \/ s[j] \notin cls)

\* the concatenation of the pieces piece[lo], ..., piece[hi]
RECURSIVE Join(_, _, _)
Join(piece, lo, hi) ==
    IF lo > hi THEN <<>>
    ELSE IF lo = hi THEN piece[lo]
    ELSE LET mid == (lo + hi) \div 2
         IN  Join(piece, lo, mid) \o Join(piece, mid + 1, hi)

\* a match of r'\[\d+\]' starts at index a of s: "[", the longest digit run,
\* which is not empty, and "]".  Two matches never overlap.
CitationAt(s, a) ==
    /\ s[a] = "["
    /\ LET j == RunEnd(s, a + 1, Digits)
       IN  j > a + 1 /\ j <= Len(s) /\ s[j] = "]"

\* re.sub(r'\[\d+\]', '', s): every match is removed, in one pass
SubCitation(s) ==
    LET inside(i) ==
            /\ s[i] \in Digits \cup {"[", "]"}
            /\ \E a \in 1..i :
                   CitationAt(s, a) /\ i <= RunEnd(s, a + 1, Digits)
    IN  IF \A a \in 1..Len(s) : ~CitationAt(s, a) THEN s
        ELSE Join([i \in 1..Len(s) |->
                      IF inside(i) THEN <<>> ELSE <<s[i]>>],
                  1, Len(s))

\* str.replace(old, new) and re.sub of a literal, in one pass, for a literal
\* old whose first character occurs nowhere else in it (every literal the
\* source replaces is one): its occurrences never overlap, and each is
\* replaced
Replace(s, old, new) ==
    LET inside(i) ==
            \E a \in (i - Len(old) + 1)..(i - 1) : a >= 1 /\ HasAt(s, a, old)
    IN  IF ~Contains(s, old) THEN s
        ELSE Join([i \in 1..Len(s) |->
                      IF HasAt(s, i, old) THEN new
                      ELSE IF inside(i) THEN <<>>
                      ELSE <<s[i]>>],
                  1, Len(s))

\* re.sub(r'\s+', ' ', s): a space for the first character of a whitespace
\* run, nothing for the rest of the run
CollapseWhitespace(s) ==
    LET single(i) == s[i] = " " /\ (i = 1 \/ s[i - 1] \notin Whitespace)
    IN  IF \A i \in 1..Len(s) : s[i] \in Whitespace => single(i) THEN s
        ELSE Join([i \in 1..Len(s) |->
                      IF s[i] \notin Whitespace THEN <<s[i]>>
                      ELSE IF i = 1 \/ s[i - 1] \notin Whitespace THEN <<" ">>
                      ELSE <<>>],
                  1, Len(s))

\* str.strip()
Strip(s) ==
    LET keep == {i \in 1..Len(s) : s[i] \notin Whitespace}
    IN  IF keep = {} THEN <<>>
        ELSE IF s[1] \notin Whitespace /\ s[Len(s)] \notin Whitespace THEN s
        ELSE SubSeq(s, CHOOSE i \in keep : \A k \in keep : i <= k,
                       CHOOSE i \in keep : \A k \in keep : i >= k)

EditLink == <<"[", "e", "d", "i", "t", "]">>

\* the literals of lines 173-174 as the interpreter reads them: line 173
\* replaces '"' by '"' twice; on line 174 the three quotes open a
\* triple-quoted string, so the one replace call has this 15-character
\* search string and "'" as its replacement
DoubleQuote == <<"\"">>
TripleQuoted ==
    <<",", " ", "\"", "'", "\"", ")", ".",
      "r", "e", "p", "l", "a", "c", "e", "(">>
SingleQuote == <<"'">>

\* clean_event_text without its first substitution: the [n] markers stay
clean_event_text_KeepMarkers(text) ==
    LET t2 == Replace(text, EditLink, <<>>)
        t3 == CollapseWhitespace(t2)
        t5 == Replace(t3, TripleQuoted, SingleQuote)
    IN  Strip(t5)

\* clean_event_text without the substitution of line 170: runs of
\* whitespace stay
clean_event_text_NoCollapse(text) ==
    LET t1 == SubCitation(text)
        t2 == Replace(t1, EditLink, <<>>)
        t5 == Replace(t2, TripleQuoted, SingleQuote)
        t6 == Replace(t5, <<"\n">>, <<" ">>)
    IN  Strip(t6)

\* WikipediaScraper.clean_event_text
clean_event_text(text) ==
    LET t1 == SubCitation(text)
        t2 == Replace(t1, EditLink, <<>>)
        t3 == CollapseWhitespace(t2)
        t4 == Replace(Replace(t3, DoubleQuote, DoubleQuote),
                      DoubleQuote, DoubleQuote)
        t5 == Replace(t4, TripleQuoted, SingleQuote)
        t6 == Replace(t5, <<"\n">>, <<" ">>)
    IN  Strip(t6)


(***************************************************************************)
(* Dates                                                                   *)
(***************************************************************************)

\* the months list of parse_events; events_by_month gets its keys in this order
months ==
    <<"January", "February", "March", "April", "May", "June", "July",
      "August", "September", "October", "November", "December">>

\* the characters of the month names, in the order of the alternatives of
\* date_pattern
MonthChars ==
    <<<<"J", "a", "n", "u", "a", "r", "y">>,
      <<"F", "e", "b", "r", "u", "a", "r", "y">>,
      <<"M", "a", "r", "c", "h">>,
      <<"A", "p", "r", "i", "l">>,
      <<"M", "a", "y">>,
      <<"J", "u", "n", "e">>,
      <<"J", "u", "l", "y">>,
      <<"A", "u", "g", "u", "s", "t">>,
      <<"S", "e", "p", "t", "e", "m", "b", "e", "r">>,
      <<"O", "c", "t", "o", "b", "e", "r">>,
      <<"N", "o", "v", "e", "m", "b", "e", "r">>,
      <<"D", "e", "c", "e", "m", "b", "e", "r">>>>

\* month_map of is_past_event
month_map(month_name) == CHOOSE k \in 1..12 : months[k] = month_name

\* the days of each month of 2025, the year is_past_event builds dates in
DaysIn2025 == <<31, 28, 31, 30, 31, 30, 31, 31, 30, 31, 30, 31>>

\* r'^(January|...|December)\s+\d+' matched at the start of text, as
\* date_pattern.match and re.match do: the month of the first alternative
\* that matches and the digits of the greedy \d+
DateMatch(text) ==
    LET ok(k) ==
            /\ HasAt(text, 1, MonthChars[k])
            /\ LET w == Len(MonthChars[k]) + 1
                    d == RunEnd(text, w, Whitespace)
               IN  d > w /\ RunEnd(text, d, Digits) > d
        hits == {k \in 1..12 : ok(k)}
    IN  IF hits = {} THEN [matched |-> FALSE, month |-> "", day |-> <<>>]
        ELSE LET k == CHOOSE h \in hits : \A g \in hits : h <= g
                 d == RunEnd(text, Len(MonthChars[k]) + 1, Whitespace)
             IN  [matched |-> TRUE, month |-> months[k],
                  day |-> SubSeq(text, d, RunEnd(text, d, Digits) - 1)]

\* the digit run without its leading zeros
RECURSIVE Significant(_)
Significant(ds) ==
    IF ds # <<>> /\ ds[1] = "0" THEN Significant(Tail(ds)) ELSE ds

\* int(ds) for a digit run of at most nine significant digits
RECURSIVE ToInt(_)
ToInt(ds) ==
    IF ds = <<>> THEN 0
    ELSE 10 * ToInt(SubSeq(ds, 1, Len(ds) - 1)) + DigitVal(ds[Len(ds)])

\* INT_MAX of the C int that datetime.date takes its arguments as
IntMaxDigits == <<"2", "1", "4", "7", "4", "8", "3", "6", "4", "7">>

\* ds, without leading zeros, denotes a larger number than es does
RECURSIVE DigitsGreater(_, _)
DigitsGreater(ds, es) ==
    IF Len(ds) # Len(es) THEN Len(ds) > Len(es)
    ELSE IF ds = <<>> THEN FALSE
    ELSE IF ds[1] # es[1] THEN DigitVal(ds[1]) > DigitVal(es[1])
    ELSE DigitsGreater(Tail(ds), Tail(es))

\* date(2025, month_num, int(day)): "OverflowError" when the day does not
\* fit a C int, "ValueError" when it is no day of that month, else "ok"
DateCtor(month_num, day) ==
    LET ds == Significant(day)
    IN  IF DigitsGreater(ds, IntMaxDigits) THEN "OverflowError"
        ELSE IF Len(ds) > 2 \/ ToInt(ds) < 1
                \/ ToInt(ds) > DaysIn2025[month_num] THEN "ValueError"
        ELSE "ok"

\* current_date = date(2025, 8, 25)
CurrentMonth == 8
CurrentDay == 25

\* event_date <= current_date, both dates of 2025
OnOrBefore(month_num, day_num) ==
    \/ month_num < CurrentMonth
    \/ month_num = CurrentMonth /\ day_num <= CurrentDay

\* is_past_event with False in its except branch: a date that cannot be
\* built is not kept
is_past_event_DropInvalid(event_text) ==
    LET date_match == DateMatch(event_text)
    IN  IF ~date_match.matched THEN [raised |-> "", value |-> TRUE]
        ELSE LET month_num == month_map(date_match.month)
                 made == DateCtor(month_num, date_match.day)
             IN  IF made = "OverflowError"
                 THEN [raised |-> "OverflowError", value |-> FALSE]
                 ELSE IF made = "ValueError"
                 THEN [raised |-> "", value |-> FALSE]
                 ELSE [raised |-> "",
                       value |-> OnOrBefore(month_num,
                                            ToInt(Significant(date_match.day)))]

\* WikipediaScraper.is_past_event: raised is the exception that leaves the
\* method ("" when it returns), value what it returns
is_past_event(event_text) ==
    LET date_match == DateMatch(event_text)
    IN  IF ~date_match.matched THEN [raised |-> "", value |-> TRUE]
        ELSE LET month_num == month_map(date_match.month)
                 made == DateCtor(month_num, date_match.day)
             IN  IF made = "OverflowError"
                 THEN [raised |-> "OverflowError", value |-> FALSE]
                 ELSE IF made = "ValueError"
                 THEN [raised |-> "", value |-> TRUE]
                 ELSE [raised |-> "",
                       value |-> OnOrBefore(month_num,
                                            ToInt(Significant(date_match.day)))]

(***************************************************************************)
(* The deduplicator and the formatter                                      *)
(***************************************************************************)

\* the length an event's text must exceed to be kept
MinEventLen == 30

\* the loop with the raw text as the key: no lower(), no whitespace collapse
RECURSIVE KeyEventsFrom_RawKey(_, _, _, _)
KeyEventsFrom_RawKey(events, i, seen, unique_events) ==
    IF i > Len(events) THEN unique_events
    ELSE LET event_text == events[i].text
         IN  IF event_text \notin seen /\ Len(event_text) > MinEventLen
             THEN KeyEventsFrom_RawKey(events, i + 1, seen \cup {event_text},
                                       Append(unique_events, events[i]))
             ELSE KeyEventsFrom_RawKey(events, i + 1, seen, unique_events)

\* the loop without the length test
RECURSIVE KeyEventsFrom_AnyLength(_, _, _, _)
KeyEventsFrom_AnyLength(events, i, seen, unique_events) ==
    IF i > Len(events) THEN unique_events
    ELSE LET event_text == events[i].text
             normalized == CollapseWhitespace(Lower(event_text))
         IN  IF normalized \notin seen
             THEN KeyEventsFrom_AnyLength(events, i + 1,
                                          seen \cup {normalized},
                                          Append(unique_events, events[i]))
             ELSE KeyEventsFrom_AnyLength(events, i + 1, seen, unique_events)

\* the loop of extract_key_events from events[i] on
RECURSIVE KeyEventsFrom(_, _, _, _)
KeyEventsFrom(events, i, seen, unique_events) ==
    IF i > Len(events) THEN unique_events
    ELSE LET event_text == events[i].text
             normalized == CollapseWhitespace(Lower(event_text))
         IN  IF normalized \notin seen /\ Len(event_text) > MinEventLen
             THEN KeyEventsFrom(events, i + 1, seen \cup {normalized},
                                Append(unique_events, events[i]))
             ELSE KeyEventsFrom(events, i + 1, seen, unique_events)

\* extract_key_events with a loop that starts at the second record
extract_key_events_SkipFirst(events) == KeyEventsFrom(events, 2, {}, <<>>)

\* WikipediaScraper.extract_key_events
extract_key_events(events) == KeyEventsFrom(events, 1, {}, <<>>)

\* the loop with each new key put before the keys already there
RECURSIVE FormatFrom_Prepend(_, _, _, _)
FormatFrom_Prepend(ebm, year, k, out) ==
    IF k > Len(months) THEN out
    ELSE LET month == months[k]
             events == ebm[month]
             unique_events == extract_key_events(events)
         IN  IF events # <<>> /\ unique_events # <<>>
             THEN FormatFrom_Prepend(ebm, year, k + 1,
                      <<[month_year |-> <<month, year>>,
                         events |-> unique_events]>> \o out)
             ELSE FormatFrom_Prepend(ebm, year, k + 1, out)

\* the loop without its two tests: every month gets a key
RECURSIVE FormatFrom_EveryMonth(_, _, _, _)
FormatFrom_EveryMonth(ebm, year, k, out) ==
    IF k > Len(months) THEN out
    ELSE FormatFrom_EveryMonth(ebm, year, k + 1,
             Append(out, [month_year |-> <<months[k], year>>,
                          events |-> extract_key_events(ebm[months[k]])]))

\* the loop of format_for_llm over events_by_month.items(), from the k-th
\* month on; the result is the events_by_month of the digest, an ordered
\* mapping held as a sequence of (key, events) entries
RECURSIVE FormatFrom(_, _, _, _)
FormatFrom(ebm, year, k, out) ==
    IF k > Len(months) THEN out
    ELSE LET month == months[k]
             events == ebm[month]
             unique_events == extract_key_events(events)
         IN  IF events # <<>> /\ unique_events # <<>>
             THEN FormatFrom(ebm, year, k + 1,
                      Append(out, [month_year |-> <<month, year>>,
                                   events |-> unique_events]))
             ELSE FormatFrom(ebm, year, k + 1, out)

\* self.url of WikipediaScraper.__init__
Url(year) == <<"https://en.wikipedia.org/wiki/", year>>

\* format_for_llm with the time of the run in the source field as well
format_for_llm_StampedSource(ebm, year, now) ==
    [year |-> year,
     source |-> Url(year) \o <<now>>,
     last_updated |-> now,
     events_by_month |-> FormatFrom(ebm, year, 1, <<>>)]

\* WikipediaScraper.format_for_llm; now is datetime.now().isoformat()
format_for_llm(ebm, year, now) ==
    [year |-> year,
     source |-> Url(year),
     last_updated |-> now,
     events_by_month |-> FormatFrom(ebm, year, 1, <<>>)]

(***************************************************************************)
(* The document tree                                                       *)
(*                                                                         *)
(* A <ul> is a sequence of items.  An item is                              *)
(*   [text |-> its own characters, which precede its nested lists,         *)
(*    sups |-> its own <sup class="reference"> elements,                   *)
(*    subs |-> the <ul>s nested in it].                                    *)
(* A <sup> is [link |-> it holds an <a>, href |-> the <a> has an href,     *)
(* target |-> the href], and an href or an id is a sequence of tokens: "#",*)
(* "cite_note-", digits and other characters.  The path of a root <ul> is  *)
(* <<r>>, of an item its list's path and its index, of a nested <ul> its   *)
(* item's path and its index among the item's lists.  detached is the set  *)
(* of the <ul>s that extract() has taken out of the tree.                  *)
(***************************************************************************)

\* the <ul> at path p below the lists uls
RECURSIVE UlAt(_, _)
UlAt(uls, p) ==
    IF Len(p) = 1 THEN uls[p[1]]
    ELSE UlAt(uls[p[1]][p[2]].subs, SubSeq(p, 3, Len(p)))

\* the <li> at path p
LiAt(uls, p) == UlAt(uls, SubSeq(p, 1, Len(p) - 1))[p[Len(p)]]

\* find_all('ul'): every <ul> of the tree, in document order
RECURSIVE FindUlsFrom(_, _, _)
RECURSIVE FindUlsInItems(_, _, _)
FindUlsFrom(uls, li_path, r) ==
    IF r > Len(uls) THEN <<>>
    ELSE <<li_path \o <<r>>>>
         \o FindUlsInItems(uls[r], li_path \o <<r>>, 1)
         \o FindUlsFrom(uls, li_path, r + 1)
FindUlsInItems(ul, ul_path, i) ==
    IF i > Len(ul) THEN <<>>
    ELSE FindUlsFrom(ul[i].subs, ul_path \o <<i>>, 1)
         \o FindUlsInItems(ul, ul_path, i + 1)

\* find_all('ul', recursive=False): the root lists only
FindAllUl_RootOnly(uls) == [r \in 1..Len(uls) |-> <<r>>]

FindAllUl(uls) == FindUlsFrom(uls, <<>>, 1)

\* get_text(): the strings below a node in document order, the detached
\* lists left out
RECURSIVE ItemsText(_, _, _, _)
RECURSIVE SubsText(_, _, _, _)
ItemsText(ul, ul_path, i, det) ==
    IF i > Len(ul) THEN <<>>
    ELSE ul[i].text \o SubsText(ul[i].subs, ul_path \o <<i>>, 1, det)
         \o ItemsText(ul, ul_path, i + 1, det)
SubsText(subs, li_path, k, det) ==
    IF k > Len(subs) THEN <<>>
    ELSE (IF li_path \o <<k>> \in det THEN <<>>
          ELSE ItemsText(subs[k], li_path \o <<k>>, 1, det))
         \o SubsText(subs, li_path, k + 1, det)

\* ul.get_text()
UlText(uls, ul_path, det) == ItemsText(UlAt(uls, ul_path), ul_path, 1, det)

\* li.get_text()
LiText(uls, li_path, det) ==
    LET li == LiAt(uls, li_path)
    IN  li.text \o SubsText(li.subs, li_path, 1, det)

\* find_all('sup', class_='reference') below a node, in document order
RECURSIVE ItemsSups(_, _, _, _)
RECURSIVE SubsSups(_, _, _, _)
ItemsSups(ul, ul_path, i, det) ==
    IF i > Len(ul) THEN <<>>
    ELSE ul[i].sups \o SubsSups(ul[i].subs, ul_path \o <<i>>, 1, det)
         \o ItemsSups(ul, ul_path, i + 1, det)
SubsSups(subs, li_path, k, det) ==
    IF k > Len(subs) THEN <<>>
    ELSE (IF li_path \o <<k>> \in det THEN <<>>
          ELSE ItemsSups(subs[k], li_path \o <<k>>, 1, det))
         \o SubsSups(subs, li_path, k + 1, det)

LiSups(uls, li_path, det) ==
    LET li == LiAt(uls, li_path)
    IN  li.sups \o SubsSups(li.subs, li_path, 1, det)

\* li.find('ul'): the paths of the first <ul> still below the item, as a
\* sequence of no or one path
FindUl(uls, li_path, det) ==
    LET li == LiAt(uls, li_path)
        left == {k \in 1..Len(li.subs) : li_path \o <<k>> \notin det}
    IN  IF left = {} THEN <<>>
        ELSE <<li_path \o <<CHOOSE k \in left : \A j \in left : k <= j>>>>

(***************************************************************************)
(* References and citations                                                *)
(*                                                                         *)
(* A footnote <li> is [id |-> its id, cite |-> the texts of its <cite>     *)
(* elements, links |-> its <a> elements], a link [external |-> its class   *)
(* has "external", href |-> no or one href].                               *)
(***************************************************************************)

\* re.compile(r'^cite_note-\d+') searched in an id
IdMatches(id) ==
    Len(id) >= 2 /\ id[1] = "cite_note-" /\ id[2] \in Digits

\* the url loop without the class test: the href of the first link that
\* has one
RECURSIVE FirstExternalHref_AnyLink(_, _)
FirstExternalHref_AnyLink(links, i) ==
    IF i > Len(links) THEN "None"
    ELSE IF links[i].href # <<>> THEN links[i].href[1]
    ELSE FirstExternalHref_AnyLink(links, i + 1)

\* the url loop of build_references_lookup: the href of the first external
\* link that has one, else None
RECURSIVE FirstExternalHref(_, _)
FirstExternalHref(links, i) ==
    IF i > Len(links) THEN "None"
    ELSE IF links[i].external /\ links[i].href # <<>> THEN links[i].href[1]
    ELSE FirstExternalHref(links, i + 1)

\* the loop of build_references_lookup from the i-th footnote on
RECURSIVE ReferencesFrom(_, _, _)
ReferencesFrom(footnotes, i, references) ==
    IF i > Len(footnotes) THEN references
    ELSE LET ref_li == footnotes[i]
         IN  IF IdMatches(ref_li.id) /\ ref_li.cite # <<>>
             THEN ReferencesFrom(footnotes, i + 1,
                      [id \in DOMAIN references \cup {ref_li.id} |->
                          IF id = ref_li.id
                          THEN [text |-> Strip(ref_li.cite[1]),
                                url |-> FirstExternalHref(ref_li.links, 1)]
                          ELSE references[id]])
             ELSE ReferencesFrom(footnotes, i + 1, references)

\* WikipediaScraper.build_references_lookup
build_references_lookup(footnotes) == ReferencesFrom(footnotes, 1, <<>>)

\* the href taken as it is, "#" included
RefId_KeepHash(target) == target

\* link['href'].replace('#', '')
RefId(target) == SelectSeq(target, LAMBDA tok : tok # "#")

\* the loop of extract_citations from the i-th superscript on
RECURSIVE CitationsFrom(_, _, _, _)
CitationsFrom(sups, references, i, citations) ==
    IF i > Len(sups) THEN citations
    ELSE LET sup == sups[i]
             ref_id == RefId(sup.target)
         IN  IF sup.link /\ sup.href /\ ref_id \in DOMAIN references
             THEN CitationsFrom(sups, references, i + 1,
                                Append(citations, references[ref_id]))
             ELSE CitationsFrom(sups, references, i + 1, citations)

\* WikipediaScraper.extract_citations
extract_citations(sups, references) ==
    CitationsFrom(sups, references, 1, <<>>)

(***************************************************************************)
(* State                                                                   *)
(***************************************************************************)

VARIABLES
    self_year,     \* self.year of the scraper
    soup,          \* the parsed page: [uls |-> root lists, footnotes |-> ...]
    detached,      \* the paths of the <ul>s taken out by sub_ul.extract()
    ref_lookup,    \* references of parse_events
    ul_list,       \* the result of soup.find_all('ul')
    ul_pos,        \* the position of the outer loop in ul_list
    li_pos,        \* the position of the inner loop in the list's items
    by_month,      \* events_by_month of parse_events
    origin,        \* for each record of by_month, the path of the <li> it was made from
    digest,        \* formatted_data, the result of format_for_llm
    pc,            \* where the run is
    response,      \* what requests.get gave fetch_page
    fetches,       \* the number of calls of requests.get
    files,         \* the files scrape_and_save has written
    exc,           \* the exception that left scrape_and_save, "" when none
    dd_events,     \* an argument of extract_key_events
    dd_unique,     \* its result
    dd_again,      \* the result of extract_key_events on that result
    ce_text,       \* an argument of clean_event_text
    ce_cleaned,    \* its result
    ce_recleaned,  \* the result of clean_event_text on that result
    rf_footnotes,  \* the footnotes of an argument of build_references_lookup
    rf_refs,       \* its result
    hg_data,       \* what HTMLGenerator.load_processed_data returns
    hg_date_len,   \* the length of current_date of generate_intro
    hg_grouped,    \* grouped_articles of generate_html
    hg_pos,        \* the position of its loop over the months
    hg_token_count, \* self.token_count of the generator
    hg_html,       \* the length of html of generate_html
    hg_emitted,    \* the articles put into html, as <<month, id>>
    hg_out,        \* the length of what generate_html returned
    hg_file,       \* the lengths of what was written to OUTPUT_FILE
    pe_year,       \* self.year of a scraper whose is_past_event is called
    pe_now,        \* the wall-clock time of the call
    pe_text,       \* the argument of is_past_event
    pe_result,     \* what the call gave
    na_sources,    \* what feedparser.parse gives for each configured feed
    na_feed_pos,   \* the position of fetch_all_sources in the feeds
    na_entry_pos,  \* the position of fetch_rss_feed in feed.entries
    seen_urls,     \* self.seen_urls of the aggregator
    na_before,     \* seen_urls when the last call of fetch_rss_feed began
    na_articles,   \* articles of the call of fetch_rss_feed under way
    na_rejected,   \* the links the test of line 40 has rejected
    na_result,     \* what the last call of fetch_rss_feed gave
    all_articles   \* all_articles of fetch_all_sources

vars ==
    <<self_year, soup, detached, ref_lookup, ul_list, ul_pos, li_pos,
      by_month, origin, digest, pc, response, fetches, files, exc,
      dd_events, dd_unique, dd_again,
      ce_text, ce_cleaned, ce_recleaned, rf_footnotes, rf_refs,
      hg_data, hg_date_len, hg_grouped, hg_pos, hg_token_count, hg_html,
      hg_emitted, hg_out, hg_file, pe_year, pe_now, pe_text, pe_result,
      na_sources, na_feed_pos, na_entry_pos, seen_urls, na_before,
      na_articles, na_rejected, na_result, all_articles>>

run_vars == <<response, fetches, files, exc>>

pipe_vars ==
    <<self_year, soup, detached, ref_lookup, ul_list, ul_pos, li_pos,
      by_month, origin, digest, run_vars>>

dd_vars == <<dd_events, dd_unique, dd_again>>

ce_vars == <<ce_text, ce_cleaned, ce_recleaned>>

rf_vars == <<rf_footnotes, rf_refs>>

\* the variables of the functions that are run on their own, other than
\* those of extract_key_events and clean_event_text
hg_vars ==
    <<hg_data, hg_date_len, hg_grouped, hg_pos, hg_token_count, hg_html,
      hg_emitted, hg_out, hg_file>>

pe_vars == <<pe_year, pe_now, pe_text, pe_result>>

na_vars ==
    <<na_sources, na_feed_pos, na_entry_pos, seen_urls, na_before,
      na_articles, na_rejected, na_result, all_articles>>

unit_vars == <<rf_vars, hg_vars, pe_vars, na_vars>>

MonthNames == {months[k] : k \in 1..Len(months)}

\* no response yet
NoResponse == [error |-> "", status |-> 0]

NoDigest ==
    [year |-> 0, source |-> <<>>, last_updated |-> 0, events_by_month |-> <<>>]

(***************************************************************************)
(* Input documents                                                         *)
(***************************************************************************)

\* the most lists nested directly in the first item of the event list
MaxSubs == 2

\* the most items that follow the first item of the event list
MaxTail == 1

\* the length a list's flattened text must reach for the list to be read
MinListLen == 100

Pad(n) == [i \in 1..n |-> "x"]

Toggle == <<"T", "o", "g", "g", "l", "e">>
Contents == <<"C", "o", "n", "t", "e", "n", "t", "s">>

Jan10Deal ==
    <<"J", "a", "n", "u", "a", "r", "y", " ", "1", "0", ":", " ", "A", " ",
      "s", "i", "g", "n", "e", "d", " ", "a", " ", "d", "e", "a", "l",
      ".">>
Cite3 == <<" ", "[", "3", "]">>
Aug25Spaced == <<"\n", " ", "A", "u", "g", "u", "s", "t", " ", " ", "2", "5", ":",
      " ">>
Aug26 == <<"A", "u", "g", "u", "s", "t", " ", "2", "6", ":", " ">>
Feb30 ==
    <<"F", "e", "b", "r", "u", "a", "r", "y", " ", "3", "0", ":", " ", "U",
      "n", "u", "s", "u", "a", "l", " ", "r", "e", "p", "o", "r", "t">>
JanOverflow ==
    <<"J", "a", "n", "u", "a", "r", "y", " ", "2", "1", "4", "7", "4", "8",
      "3", "6", "4", "8", ":", " ">>
Mar100 == <<"M", "a", "r", "c", "h", " ", "1", "0", "0", ":", " ">>
Treaty == <<"T", "r", "e", "a", "t", "y", " ", "s", "i", "g", "n", "e", "d">>
Jan12 == <<"J", "a", "n", "u", "a", "r", "y", " ", "1", "2", ":", " ">>
Jan13 == <<"J", "a", "n", "u", "a", "r", "y", " ", "1", "3", ":", " ">>
Jan15 == <<"J", "a", "n", "u", "a", "r", "y", " ", "1", "5", ":", " ">>
SubClause == <<"S", "u", "b", "-", "c", "l", "a", "u", "s", "e", " ", "r", "a", "t",
      "i", "f", "i", "e", "d">>
BBC == <<" ", "B", "B", "C", " ", "N", "e", "w", "s", ",", " ", "2", "0", "2",
      "5", "\n">>
Reuters == <<"R", "e", "u", "t", "e", "r", "s">>

Sup(n) == [link |-> TRUE, href |-> TRUE, target |-> <<"#", "cite_note-", n>>]
SupNoLink == [link |-> FALSE, href |-> FALSE, target |-> <<>>]
SupNoHref == [link |-> TRUE, href |-> FALSE, target |-> <<>>]

Leaf(text, sups) == [text |-> text, sups |-> sups, subs |-> <<>>]

\* the footnotes of the page: 7 has a citation and an external link, 8 a
\* citation and no external link, 3 no citation; 9 does not exist
Footnotes ==
    << [id |-> <<"cite_note-", "7">>, cite |-> <<BBC>>,
        links |-> << [external |-> FALSE, href |-> <<"#cite_ref-7">>],
                     [external |-> TRUE, href |-> <<>>],
                     [external |-> TRUE, href |-> <<"https://bbc.com/x">>],
                     [external |-> TRUE, href |-> <<"https://bbc.com/y">>] >>],
       [id |-> <<"cite_note-", "3">>, cite |-> <<>>,
        links |-> << [external |-> TRUE, href |-> <<"https://cnn.com/x">>] >>],
       [id |-> <<"cite_ref-", "7">>, cite |-> <<Reuters>>, links |-> <<>>],
       [id |-> <<"cite_note-", "8">>, cite |-> <<Reuters>>,
        links |-> << [external |-> FALSE, href |-> <<"#cite_ref-8">>] >>] >>

\* the texts of the first item of the event list
HeadTexts ==
    { Jan10Deal \o Cite3,
      Jan10Deal \o Pad(3) \o Cite3,
      Aug25Spaced \o Pad(20),
      Aug26 \o Pad(20),
      Feb30 \o Pad(4),
      JanOverflow \o Pad(11),
      Mar100 \o Pad(20),
      Treaty }

\* the reference superscripts of the first item
HeadSups == { <<>>, <<Sup("3"), SupNoLink, Sup("7")>> }

\* the lists nested in the first item: a short list with a dated item, a
\* long one, and one whose item has a list of its own
NestedLists ==
    { << Leaf(Jan12 \o Pad(10), <<>>) >>,
      << Leaf(Jan12 \o Pad(90), <<Sup("8")>>) >>,
      << [text |-> SubClause, sups |-> <<Sup("9"), SupNoHref>>,
          subs |-> << << Leaf(Jan15 \o Pad(90), <<Sup("7")>>) >> >>] >> }

\* the items that follow the first item
TailTexts ==
    { Jan10Deal,
      Jan10Deal \o Pad(3),
      Pad(MinListLen) }

\* the sequences of at most n elements of S
SeqsUpTo(S, n) == UNION {[1..k -> S] : k \in 0..n}

\* the navigation list and the table of contents that precede the event
\* list; each holds an item that starts with a past date
NavList ==
    << Leaf(Toggle, <<>>), Leaf(Jan13 \o Pad(90), <<Sup("7")>>) >>

TocList ==
    << Leaf(Jan13 \o Pad(90), <<>>), Leaf(Contents, <<>>) >>

EventLists ==
    { <<[text |-> t, sups |-> c, subs |-> n]>>
          \o [i \in 1..Len(rest) |-> Leaf(rest[i], <<>>)] :
        t \in HeadTexts, c \in HeadSups,
        n \in SeqsUpTo(NestedLists, MaxSubs),
        rest \in SeqsUpTo(TailTexts, MaxTail) }

Documents ==
    { [uls |-> <<NavList, TocList, ev>>, footnotes |-> Footnotes] :
        ev \in EventLists }

\* the years a scraper is made for
Years == {2024, 2025}

\* the values of datetime.now().isoformat() at two runs
Clock == {1, 2}

(***************************************************************************)
(* The pipeline: parse_events, then format_for_llm                         *)
(***************************************************************************)

DedupIdle == dd_events = <<>> /\ dd_unique = <<>> /\ dd_again = <<>>

CleanIdle == ce_text = <<>> /\ ce_cleaned = <<>> /\ ce_recleaned = <<>>

RefsIdle == rf_footnotes = <<>> /\ rf_refs = <<>>

HtmlIdle ==
    /\ hg_data = [articles |-> <<>>, grouped_by_month |-> <<>>]
    /\ hg_date_len = 0
    /\ hg_grouped = <<>>
    /\ hg_pos = 1
    /\ hg_token_count = 0
    /\ hg_html = 0
    /\ hg_emitted = <<>>
    /\ hg_out = 0
    /\ hg_file = <<>>

PastIdle ==
    /\ pe_year = 0
    /\ pe_now = 0
    /\ pe_text = <<>>
    /\ pe_result = [raised |-> "", value |-> FALSE]

NoResult == [error |-> FALSE, articles |-> <<>>]

NewsIdle ==
    /\ na_sources = <<>>
    /\ na_feed_pos = 1
    /\ na_entry_pos = 1
    /\ seen_urls = {}
    /\ na_before = {}
    /\ na_articles = <<>>
    /\ na_rejected = {}
    /\ na_result = NoResult
    /\ all_articles = <<>>

UnitsIdle == RefsIdle /\ HtmlIdle /\ PastIdle /\ NewsIdle

PipeIdle ==
    /\ self_year = 2025
    /\ soup = [uls |-> <<>>, footnotes |-> <<>>]
    /\ detached = {}
    /\ ref_lookup = <<>>
    /\ ul_list = <<>>
    /\ ul_pos = 1
    /\ li_pos = 1
    /\ by_month = [m \in MonthNames |-> <<>>]
    /\ origin = [m \in MonthNames |-> <<>>]
    /\ digest = NoDigest
    /\ response = NoResponse
    /\ fetches = 0
    /\ files = {}
    /\ exc = ""

\* a scraper for some year and the page its url serves, before
\* scrape_and_save
Init ==
    /\ self_year \in Years
    /\ soup \in Documents
    /\ detached = {}
    /\ ref_lookup = <<>>
    /\ ul_list = <<>>
    /\ ul_pos = 1
    /\ li_pos = 1
    /\ by_month = [m \in MonthNames |-> <<>>]
    /\ origin = [m \in MonthNames |-> <<>>]
    /\ digest = NoDigest
    /\ response = NoResponse
    /\ fetches = 0
    /\ files = {}
    /\ exc = ""
    /\ pc = "fetch"
    /\ DedupIdle
    /\ CleanIdle
    /\ UnitsIdle

\* the test of line 57 without its two markers
SkipList_LengthOnly(ul_text) == Len(ul_text) < MinListLen

\* the test of line 57 on ul.get_text()
SkipList(ul_text) ==
    \/ Contains(ul_text, Toggle)
    \/ Contains(ul_text, Contents)
    \/ Len(ul_text) < MinListLen

\* what requests.get can give: no response at all, or a response with a
\* status
FetchOutcomes ==
    { [error |-> "ConnectionError", status |-> 0],
      [error |-> "", status |-> 200],
      [error |-> "", status |-> 404],
      [error |-> "", status |-> 503] }

\* a raise_for_status that never raises
raise_for_status_Never(status) == ""

\* response.raise_for_status(): the exception it raises, "" when none
raise_for_status(status) ==
    IF status >= 400 /\ status < 600 THEN "HTTPError" ELSE ""

\* WikipediaScraper.fetch_page on what requests.get gave: the exception
\* that leaves it, "" when it returns response.text
fetch_page(outcome) ==
    IF outcome.error # "" THEN outcome.error
    ELSE raise_for_status(outcome.status)

\* html = self.fetch_page(), line 357: one call of requests.get; an
\* exception leaves scrape_and_save, which has no handler
FetchPage ==
    /\ pc = "fetch"
    /\ \E outcome \in FetchOutcomes :
           /\ response' = outcome
           /\ fetches' = fetches + 1
           /\ exc' = fetch_page(outcome)
           /\ pc' = IF fetch_page(outcome) = "" THEN "start" ELSE "failed"
    /\ UNCHANGED <<self_year, soup, detached, ref_lookup, ul_list, ul_pos,
                   li_pos, by_month, origin, digest, files, dd_vars, ce_vars,
                   unit_vars>>

\* the files of lines 371-395, each with the rendering written to it
OutputFiles(year) ==
    { [path |-> <<"wikipedia_", year, "_events.json">>, content |-> "json"],
      [path |-> <<"newsforllms_", year, ".md">>, content |-> "markdown"],
      [path |-> <<"newsforllms_", year, ".html">>, content |-> "simple_html"],
      [path |-> <<"newsforllms.html">>, content |-> "simple_html"] }

\* parse_events up to its outer loop: the references, the months, find_all
ParseBegin ==
    /\ pc = "start"
    /\ ref_lookup' = build_references_lookup(soup.footnotes)
    /\ by_month' = [m \in MonthNames |-> <<>>]
    /\ ul_list' = FindAllUl(soup.uls)
    /\ ul_pos' = 1
    /\ pc' = "loop"
    /\ UNCHANGED <<self_year, soup, detached, li_pos, origin, digest,
                   run_vars, dd_vars, ce_vars,
                   unit_vars>>

\* the outer loop reaches a list that line 57 skips
SkipUl ==
    /\ pc = "loop"
    /\ ul_pos <= Len(ul_list)
    /\ LET ul_path == ul_list[ul_pos]
       IN  \/ SkipList(UlText(soup.uls, ul_path, detached))
           \/ UlAt(soup.uls, ul_path) = <<>>
    /\ ul_pos' = ul_pos + 1
    /\ UNCHANGED <<self_year, soup, detached, ref_lookup, ul_list, li_pos,
                   by_month, origin, digest, pc, run_vars, dd_vars, ce_vars,
                   unit_vars>>

\* the outer loop reaches a list whose items it reads
EnterUl ==
    /\ pc = "loop"
    /\ ul_pos <= Len(ul_list)
    /\ LET ul_path == ul_list[ul_pos]
       IN  /\ ~SkipList(UlText(soup.uls, ul_path, detached))
           /\ UlAt(soup.uls, ul_path) # <<>>
    /\ li_pos' = 1
    /\ pc' = "items"
    /\ UNCHANGED <<self_year, soup, detached, ref_lookup, ul_list, ul_pos,
                   by_month, origin, digest, run_vars, dd_vars, ce_vars,
                   unit_vars>>

\* the text parse_events computes for the item at li_path: the first list
\* still below the item is detached, then the item's text is cleaned
EventText(uls, li_path, det) ==
    LET sub_ul == FindUl(uls, li_path, det)
    IN  clean_event_text(LiText(uls, li_path, det \cup {sub_ul[k] : k \in 1..Len(sub_ul)}))

\* one pass of the inner loop, lines 61-85, on the item at li_pos
ProcessLi ==
    /\ pc = "items"
    /\ LET ul_path == ul_list[ul_pos]
           li_path == ul_path \o <<li_pos>>
           citations ==
               extract_citations(LiSups(soup.uls, li_path, detached),
                                 ref_lookup)
           sub_ul == FindUl(soup.uls, li_path, detached)
           event_text == EventText(soup.uls, li_path, detached)
           date_match == DateMatch(event_text)
           past == is_past_event(event_text)
           last == li_pos = Len(UlAt(soup.uls, ul_path))
       IN  /\ detached' = detached \cup {sub_ul[k] : k \in 1..Len(sub_ul)}
           /\ IF date_match.matched /\ past.raised # ""
              THEN \* the exception leaves parse_events
                   /\ pc' = "raised"
                   /\ exc' = past.raised
                   /\ UNCHANGED <<by_month, origin, ul_pos, li_pos>>
              ELSE /\ exc' = exc
                   /\ IF date_match.matched /\ past.value
                      THEN /\ by_month' =
                                [by_month EXCEPT ![date_match.month] =
                                    Append(@, [text |-> event_text,
                                               citations |-> citations])]
                           /\ origin' =
                                [origin EXCEPT ![date_match.month] =
                                    Append(@, li_path)]
                      ELSE UNCHANGED <<by_month, origin>>
                   /\ IF last
                      THEN ul_pos' = ul_pos + 1 /\ li_pos' = 1 /\ pc' = "loop"
                      ELSE li_pos' = li_pos + 1 /\ UNCHANGED <<ul_pos, pc>>
    /\ UNCHANGED <<self_year, soup, ref_lookup, ul_list, digest,
                   response, fetches, files, dd_vars, ce_vars,
                   unit_vars>>

\* parse_events returns events_by_month
ParseReturn ==
    /\ pc = "loop"
    /\ ul_pos > Len(ul_list)
    /\ pc' = "parsed"
    /\ UNCHANGED <<pipe_vars, dd_vars, ce_vars, unit_vars>>

\* format_for_llm on what parse_events returned
FormatForLlm ==
    /\ pc = "parsed"
    /\ \E now \in Clock :
           digest' = format_for_llm(by_month, self_year, now)
    /\ pc' = "done"
    /\ UNCHANGED <<self_year, soup, detached, ref_lookup, ul_list, ul_pos,
                   li_pos, by_month, origin, run_vars, dd_vars, ce_vars,
                   unit_vars>>

\* lines 371-397 of scrape_and_save: the four files are written and
\* formatted_data is returned
SaveOutputs ==
    /\ pc = "done"
    /\ files' = files \cup OutputFiles(self_year)
    /\ pc' = "saved"
    /\ UNCHANGED <<self_year, soup, detached, ref_lookup, ul_list, ul_pos,
                   li_pos, by_month, origin, digest, response, fetches, exc,
                   dd_vars, ce_vars, unit_vars>>

Next ==
    \/ FetchPage
    \/ ParseBegin
    \/ SkipUl
    \/ EnterUl
    \/ ProcessLi
    \/ ParseReturn
    \/ FormatForLlm
    \/ SaveOutputs

Spec == Init /\ [][Next]_vars

(***************************************************************************)
(* extract_key_events on its own                                           *)
(***************************************************************************)

\* the most records of an argument of extract_key_events
MaxEvents == 3

Deal1 == <<"D", "e", "a", "l", " ">>
DealLower == <<"d", "e", "a", "l", " ">>
Deal2 == <<"D", "e", "a", "l", " ", " ">>
Deal3 == <<"D", "e", "a", "l", "\n", "	", " ">>
Peace == <<"P", "e", "a", "c", "e", " ">>

BBCCitation == [text |-> <<"B", "B", "C", " ", "N", "e", "w", "s", ",", " ", "2", "0", "2", "5">>, url |-> "https://bbc.com/x"]

\* records around the length limit: texts of 29, 30, 31 and 32 characters,
\* texts that differ in case or in whitespace only, the same text with
\* other citations, and a text of 31 characters with the key of the one of
\* 29
DedupRecords ==
    { [text |-> Deal1 \o Pad(24), citations |-> <<>>],
      [text |-> Deal1 \o Pad(25), citations |-> <<>>],
      [text |-> Deal1 \o Pad(26), citations |-> <<>>],
      [text |-> Deal1 \o Pad(26), citations |-> <<BBCCitation>>],
      [text |-> DealLower \o Pad(26), citations |-> <<>>],
      [text |-> Deal2 \o Pad(26), citations |-> <<>>],
      [text |-> Deal3 \o Pad(24), citations |-> <<>>],
      [text |-> Peace \o Pad(25), citations |-> <<>>] }

InitDedup ==
    /\ dd_events \in SeqsUpTo(DedupRecords, MaxEvents)
    /\ dd_unique = <<>>
    /\ dd_again = <<>>
    /\ pc = "start"
    /\ PipeIdle
    /\ CleanIdle
    /\ UnitsIdle

\* extract_key_events(events)
DedupOnce ==
    /\ pc = "start"
    /\ dd_unique' = extract_key_events(dd_events)
    /\ pc' = "once"
    /\ UNCHANGED <<pipe_vars, ce_vars, unit_vars, dd_events, dd_again>>

\* extract_key_events on the result of the first call
DedupTwice ==
    /\ pc = "once"
    /\ dd_again' = extract_key_events(dd_unique)
    /\ pc' = "twice"
    /\ UNCHANGED <<pipe_vars, ce_vars, unit_vars, dd_events, dd_unique>>

NextDedup == DedupOnce \/ DedupTwice

SpecDedup == InitDedup /\ [][NextDedup]_vars

(***************************************************************************)
(* clean_event_text on its own                                             *)
(***************************************************************************)

\* the most pieces of an argument of clean_event_text
MaxPieces == 6

CleanPieces ==
    { <<"[">>, <<"]">>, <<"1">>, <<"\n">>, <<"e", "d">>, <<"i", "t">> }

RECURSIVE Flatten(_)
Flatten(pieces) ==
    IF pieces = <<>> THEN <<>> ELSE Head(pieces) \o Flatten(Tail(pieces))

InitClean ==
    /\ ce_text \in {Flatten(ps) : ps \in SeqsUpTo(CleanPieces, MaxPieces)}
    /\ ce_cleaned = <<>>
    /\ ce_recleaned = <<>>
    /\ pc = "start"
    /\ PipeIdle
    /\ DedupIdle
    /\ UnitsIdle

\* clean_event_text(text)
CleanOnce ==
    /\ pc = "start"
    /\ ce_cleaned' = clean_event_text(ce_text)
    /\ pc' = "once"
    /\ UNCHANGED <<pipe_vars, dd_vars, unit_vars, ce_text, ce_recleaned>>

\* clean_event_text on the result of the first call
CleanTwice ==
    /\ pc = "once"
    /\ ce_recleaned' = clean_event_text(ce_cleaned)
    /\ pc' = "twice"
    /\ UNCHANGED <<pipe_vars, dd_vars, unit_vars, ce_text, ce_cleaned>>

NextClean == CleanOnce \/ CleanTwice

SpecClean == InitClean /\ [][NextClean]_vars

(***************************************************************************)
(* What the claims speak of                                                *)
(***************************************************************************)

\* the paths of the lists of the document, nested ones included
RECURSIVE ListPaths(_, _)
ListPaths(lists, li_path) ==
    UNION { {li_path \o <<r>>}
            \cup UNION { ListPaths(lists[r][i].subs, li_path \o <<r, i>>) :
                         i \in 1..Len(lists[r]) } :
            r \in 1..Len(lists) }

Lists == ListPaths(soup.uls, <<>>)

\* the paths of the direct items of the list at path p
ItemsOf(p) == {p \o <<i>> : i \in 1..Len(UlAt(soup.uls, p))}

Items == UNION {ItemsOf(p) : p \in Lists}

\* the list an item is a direct item of
ListOf(li) == SubSeq(li, 1, Len(li) - 1)

\* the flattened text of the list at path p, as the page has it
FlatText(p) == UlText(soup.uls, p, {})

\* the list is a navigation list or too short: it is to give no record
Excluded(p) ==
    \/ Contains(FlatText(p), Toggle)
    \/ Contains(FlatText(p), Contents)
    \/ Len(FlatText(p)) < 100

\* the text of an item once its first nested list is taken out, before
\* and after cleaning: what parse_events reads for the item
RawText(li) ==
    LET sub_ul == FindUl(soup.uls, li, {})
    IN  LiText(soup.uls, li, {sub_ul[k] : k \in 1..Len(sub_ul)})

ItemText(li) == EventText(soup.uls, li, {})

\* the normalized text of the item's own content, its nested lists left out
OwnText(li) == clean_event_text(LiAt(soup.uls, li).text)

\* the places <<month, k>> of the records of by_month
Places ==
    UNION {{<<m, k>> : k \in 1..Len(by_month[m])} : m \in MonthNames}

\* the places of the records made from the item li
PlacesOf(li) == {pl \in Places : origin[pl[1]][pl[2]] = li}

HasRecord(li) == PlacesOf(li) # {}

\* the records of the digest, as <<entry, k>>
DigestPlaces ==
    UNION {{<<e, k>> : k \in 1..Len(digest.events_by_month[e].events)} :
           e \in 1..Len(digest.events_by_month)}

DigestText(pl) == digest.events_by_month[pl[1]].events[pl[2]].text

\* t starts with a Month Day token that is a day of that month of 2025
ValidDate(t) ==
    LET dm == DateMatch(t)
        ds == Significant(dm.day)
    IN  /\ dm.matched
        /\ Len(ds) \in 1..2
        /\ ToInt(ds) \in 1..DaysIn2025[month_map(dm.month)]

\* t starts with a Month Day token dated on or before the as-of date,
\* August 25
PastDate(t) ==
    /\ ValidDate(t)
    /\ LET dm == DateMatch(t)
           mo == month_map(dm.month)
           dy == ToInt(Significant(dm.day))
       IN  mo < 8 \/ (mo = 8 /\ dy <= 25)

\* parse_events has ended: it returned or an exception left it
ParseEnded == pc \in {"parsed", "done", "raised"}

(***************************************************************************)
(* The claims                                                              *)
(***************************************************************************)

\* C1: once parse_events has ended, every record whose text starts with a
\* valid calendar date is dated on or before the as-of date, and every item
\* of a list that is read whose text starts with a Month Day token that is
\* no valid calendar date has a record.
C1_DateGatedInclusion ==
    ParseEnded =>
        /\ \A pl \in Places :
               LET t == by_month[pl[1]][pl[2]].text
               IN  ValidDate(t) => PastDate(t)
        /\ \A li \in Items :
               (/\ ~Excluded(ListOf(li))
                /\ DateMatch(ItemText(li)).matched
                /\ ~ValidDate(ItemText(li)))
               => HasRecord(li)

\* C2: the text of every record is the normalized text of its item's own
\* content and holds no text of a list nested in the item.
C2_NestedItemIsolation ==
    \A pl \in Places :
        by_month[pl[1]][pl[2]].text = OwnText(origin[pl[1]][pl[2]])

\* C3, as claimed: when parse_events returns, every nested item whose own
\* normalized text starts with a Month Day token dated on or before the
\* as-of date has a record of its own.
C3_NestedItemRecord ==
    pc = "parsed" =>
        \A li \in Items :
            (Len(li) > 2 /\ PastDate(OwnText(li))) => HasRecord(li)

\* C3, amended: when parse_events returns, every nested item of a list that
\* is read (flattened text of at least 100 characters, with neither marker)
\* whose text, as parse_events computes it, starts with a Month Day token
\* dated on or before the as-of date has exactly one record of its own, in
\* the bucket of that month and with that text.
C3_NestedItemRecordOfReadList ==
    pc = "parsed" =>
        \A li \in Items :
            (/\ Len(li) > 2
             /\ ~Excluded(ListOf(li))
             /\ PastDate(ItemText(li)))
            => /\ Cardinality(PlacesOf(li)) = 1
               /\ \A pl \in PlacesOf(li) :
                      /\ pl[1] = DateMatch(ItemText(li)).month
                      /\ by_month[pl[1]][pl[2]].text = ItemText(li)

\* a nested item and the item it is nested in both have a record
C3_Witness ==
    /\ pc = "parsed"
    /\ \E li \in Items :
           /\ Len(li) > 2
           /\ HasRecord(li)
           /\ HasRecord(SubSeq(li, 1, Len(li) - 2))

\* C4: extract_key_events applied to its own result returns that result.
C4_DedupConvergence == pc = "twice" => dd_again = dd_unique

\* the second call was made on a result that had lost records
C4_Witness ==
    /\ pc = "twice"
    /\ dd_unique # <<>>
    /\ Len(dd_unique) < Len(dd_events)

\* the dedup key of a text: lowercased, whitespace runs collapsed
DedupKey(t) == CollapseWhitespace(Lower(t))

\* the records of events that are the first with their key among those of
\* at least min_len characters, in the order of events
FirstOccurrences(events, min_len) ==
    LET long(i) == Len(events[i].text) >= min_len
        first(i) ==
            /\ long(i)
            /\ \A j \in 1..(i - 1) :
                   long(j) => DedupKey(events[j].text) # DedupKey(events[i].text)
    IN  Join([i \in 1..Len(events) |->
                 IF first(i) THEN <<events[i]>> ELSE <<>>],
             1, Len(events))

\* C5, as claimed: the result of extract_key_events is the first occurrence
\* of each key among the records of at least 30 characters, in input order.
C5_FirstOccurrencesOf30 ==
    pc = "once" => dd_unique = FirstOccurrences(dd_events, 30)

\* C5, amended: the result of extract_key_events is the first occurrence of
\* each key among the records of more than 30 characters, in input order.
C5_FirstOccurrencesOver30 ==
    pc = "once" => dd_unique = FirstOccurrences(dd_events, 31)

\* a record of exactly 30 characters, a later duplicate of a kept record
\* and a kept record, all in one argument
C5_Witness ==
    /\ pc = "once"
    /\ dd_unique # <<>>
    /\ \E i \in 1..Len(dd_events) : Len(dd_events[i].text) = 30
    /\ \E i, j \in 1..Len(dd_events) :
           /\ i < j
           /\ Len(dd_events[i].text) > 30
           /\ dd_events[i].text # dd_events[j].text
           /\ DedupKey(dd_events[i].text) = DedupKey(dd_events[j].text)

\* C6: no record of the digest has a text shorter than 30 characters.
C6_MinimumLength ==
    \A pl \in DigestPlaces : Len(DigestText(pl)) >= 30

\* parse_events returned a record shorter than 30 characters and the
\* digest holds records
C6_Witness ==
    /\ pc = "done"
    /\ DigestPlaces # {}
    /\ \E pl \in Places : Len(by_month[pl[1]][pl[2]].text) < 30

\* C7: clean_event_text applied to its own result returns that result.
C7_CleanIdempotent == pc = "twice" => ce_recleaned = ce_cleaned

\* C8: a list whose flattened text holds "Toggle" or "Contents" or is
\* shorter than 100 characters gives no record: none of its direct items
\* has one.
C8_NavigationListExcluded ==
    \A p \in Lists :
        Excluded(p) => \A li \in ItemsOf(p) : ~HasRecord(li)

\* parse_events returned records, while a list with a marker and a list
\* that is too short each hold an item that starts with a past date
C8_Witness ==
    /\ pc = "parsed"
    /\ Places # {}
    /\ \E p \in Lists :
           /\ Contains(FlatText(p), Toggle) \/ Contains(FlatText(p), Contents)
           /\ \E li \in ItemsOf(p) : PastDate(ItemText(li))
    /\ \E p \in Lists :
           /\ Len(FlatText(p)) < 100
           /\ \E li \in ItemsOf(p) : PastDate(ItemText(li))

\* the marker an anchor's href "#<marker>" refers to
MarkerOf(target) ==
    IF target # <<>> /\ target[1] = "#" THEN Tail(target) ELSE target

\* the entries of the reference table for the anchors of the item li that
\* have an href whose marker is in the table, in anchor order
ResolvedCitations(li) ==
    LET anchors == LiSups(soup.uls, li, {})
        found == SelectSeq(anchors,
                     LAMBDA a : /\ a.link /\ a.href
                                /\ MarkerOf(a.target) \in DOMAIN ref_lookup)
    IN  [j \in 1..Len(found) |-> ref_lookup[MarkerOf(found[j].target)]]

\* C9: the citations of every record are the reference-table entries of
\* the markers its item's anchors refer to, in anchor order; an anchor
\* whose marker is not in the table adds nothing.
C9_CitationAttachment ==
    \A pl \in Places :
        by_month[pl[1]][pl[2]].citations
            = ResolvedCitations(origin[pl[1]][pl[2]])

\* a record whose item has an anchor to a marker that is not in the table
\* and one to cite_note-7, and whose citations are that one entry
C9_Witness ==
    \E pl \in Places :
        /\ by_month[pl[1]][pl[2]].citations = <<BBCCitation>>
        /\ \E a \in {LiAt(soup.uls, origin[pl[1]][pl[2]]).sups[j] :
                     j \in 1..Len(LiAt(soup.uls, origin[pl[1]][pl[2]]).sups)} :
               a.link /\ a.href /\ MarkerOf(a.target) \notin DOMAIN ref_lookup

\* the text of an item with its [n] markers taken out, whitespace runs
\* collapsed and stripped: two items differ only by citation markers when
\* these are equal
Unmarked(li) == Strip(CollapseWhitespace(SubCitation(RawText(li))))

\* the records of the digest whose text, its markers taken out, is t
DigestCopies(t) ==
    {pl \in DigestPlaces :
        Strip(CollapseWhitespace(SubCitation(DigestText(pl)))) = t}

\* C10, as claimed: two items of the event list that start with a past
\* date and differ only by citation markers are exactly one record of the
\* digest, with the markers stripped.
C10_DuplicateCollapse ==
    pc = "done" =>
        \A a, b \in ItemsOf(<<Len(soup.uls)>>) :
            (a # b /\ PastDate(Unmarked(a)) /\ Unmarked(a) = Unmarked(b))
            => /\ Cardinality(DigestCopies(Unmarked(a))) = 1
               /\ \A pl \in DigestCopies(Unmarked(a)) :
                      DigestText(pl) = Unmarked(a)

\* C10, amended: two items of lists that are read that start with a past
\* date, differ only by citation markers and whose text without the
\* markers is longer than 30 characters are exactly one record of the
\* digest, with the markers stripped.
C10_DuplicateCollapseWhenKept ==
    pc = "done" =>
        \A a, b \in Items :
            (/\ a # b
             /\ ~Excluded(ListOf(a))
             /\ ~Excluded(ListOf(b))
             /\ PastDate(Unmarked(a))
             /\ Len(Unmarked(a)) > 30
             /\ Unmarked(a) = Unmarked(b))
            => /\ Cardinality(DigestCopies(Unmarked(a))) = 1
               /\ \A pl \in DigestCopies(Unmarked(a)) :
                      DigestText(pl) = Unmarked(a)

\* two such items, one with a marker and one without, and the one record
C10_Witness ==
    /\ pc = "done"
    /\ \E a, b \in Items :
           /\ a # b
           /\ ~Excluded(ListOf(a))
           /\ ~Excluded(ListOf(b))
           /\ RawText(a) # RawText(b)
           /\ PastDate(Unmarked(a))
           /\ Len(Unmarked(a)) > 30
           /\ Unmarked(a) = Unmarked(b)
           /\ Cardinality(DigestCopies(Unmarked(a))) = 1

\* the path p comes before the path q in document order: an item comes
\* before the lists nested in it, and these before the item's later siblings
PathBefore(p, q) ==
    LET n == IF Len(p) < Len(q) THEN Len(p) ELSE Len(q)
        d == {i \in 1..n : p[i] # q[i]}
    IN  IF d = {} THEN Len(p) < Len(q)
        ELSE LET i == CHOOSE j \in d : \A h \in d : j <= h
             IN  p[i] < q[i]

\* the records of the bucket of month, each with the item it was made from
Tagged(month) ==
    [k \in 1..Len(by_month[month]) |->
        [text |-> by_month[month][k].text,
         citations |-> by_month[month][k].citations,
         li |-> origin[month][k]]]

\* the items of the records that format_for_llm keeps of the bucket of
\* month, in the order of the digest
DigestSources(month) ==
    LET unique_events == extract_key_events(Tagged(month))
    IN  [k \in 1..Len(unique_events) |-> unique_events[k].li]

\* the bucket of month in the digest, <<>> when the month has no key
DigestBucket(month) ==
    LET es == {e \in 1..Len(digest.events_by_month) :
                  digest.events_by_month[e].month_year[1] = month}
    IN  IF es = {} THEN <<>>
        ELSE digest.events_by_month[CHOOSE e \in es : TRUE].events

\* C11: in every month bucket of the digest the records are in the document
\* order of their items: the bucket holds the records of DigestSources, and
\* the item of an earlier record comes before the item of a later one in the
\* document.
C11_DocumentOrderInBucket ==
    pc = "done" =>
        \A month \in MonthNames :
            LET src == DigestSources(month)
            IN  /\ Len(DigestBucket(month)) = Len(src)
                /\ \A i, j \in 1..Len(src) :
                       i < j => PathBefore(src[i], src[j])

\* C11 for the items of one list: the records of two items of the same list
\* are in the order of the items
C11_OrderWithinOneList ==
    pc = "done" =>
        \A month \in MonthNames :
            LET src == DigestSources(month)
            IN  \A i, j \in 1..Len(src) :
                    (i < j /\ ListOf(src[i]) = ListOf(src[j]))
                    => PathBefore(src[i], src[j])

\* the month of the e-th key of the digest
DigestMonth(e) == digest.events_by_month[e].month_year[1]

\* the item of the bucket of month that comes first in the document
FirstSource(month) ==
    LET src == DigestSources(month)
    IN  CHOOSE p \in {src[k] : k \in 1..Len(src)} :
            \A k \in 1..Len(src) : src[k] = p \/ PathBefore(p, src[k])

\* C12, as claimed: the month keys of the digest are in the order in which
\* the months' events are first met in the document.
C12_MonthsInDocumentOrder ==
    pc = "done" =>
        \A e, f \in 1..Len(digest.events_by_month) :
            e < f => PathBefore(FirstSource(DigestMonth(e)),
                                FirstSource(DigestMonth(f)))

\* C12, amended: the month keys of the digest are in calendar order, the
\* order in which parse_events creates the keys of events_by_month, whatever
\* the order of the months in the document; each key is the month name with
\* the scraper's year.
C12_MonthsInCalendarOrder ==
    pc = "done" =>
        /\ \A e, f \in 1..Len(digest.events_by_month) :
               e < f => month_map(DigestMonth(e)) < month_map(DigestMonth(f))
        /\ \A e \in 1..Len(digest.events_by_month) :
               digest.events_by_month[e].month_year
                   = <<DigestMonth(e), self_year>>

\* a digest of two months where the later month is met first in the
\* document, both in items of the event list itself
C12_Witness ==
    /\ pc = "done"
    /\ \E e, f \in 1..Len(digest.events_by_month) :
           /\ e < f
           /\ Len(FirstSource(DigestMonth(e))) = 2
           /\ Len(FirstSource(DigestMonth(f))) = 2
           /\ PathBefore(FirstSource(DigestMonth(f)),
                         FirstSource(DigestMonth(e)))

\* no record of parse_events is left by the deduplicator
NothingKept == \A month \in MonthNames : extract_key_events(by_month[month]) = <<>>

\* C13: every month key of the digest maps to a non-empty list of records;
\* when no record is extracted, or the deduplicator removes every record,
\* format_for_llm still returns, and the events_by_month of its digest is
\* empty.
C13_EmptyMonthsOmitted ==
    /\ pc = "parsed" => ENABLED FormatForLlm
    /\ pc = "done" =>
           /\ \A e \in 1..Len(digest.events_by_month) :
                  digest.events_by_month[e].events # <<>>
           /\ \A month \in MonthNames :
                  (DigestBucket(month) = <<>>)
                      <=> (extract_key_events(by_month[month]) = <<>>)
           /\ NothingKept => digest.events_by_month = <<>>

\* parse_events extracted records, the deduplicator removed them all and
\* the digest has no month
C13_Witness ==
    /\ pc = "done"
    /\ \E month \in MonthNames : by_month[month] # <<>>
    /\ NothingKept
    /\ digest.events_by_month = <<>>
    /\ digest.year = self_year

\* the digest format_for_llm makes of what parse_events returned when the
\* clock reads now
DigestAt(now) == format_for_llm(by_month, self_year, now)

\* the fields of a digest other than last_updated
Content(d) ==
    [year |-> d.year, source |-> d.source,
     events_by_month |-> d.events_by_month]

\* C14, as claimed: the digest of a run is the digest of every run on the
\* same document that reads another wall-clock time, every field included.
C14_SameDigestAtAnyTime ==
    [][(pc = "parsed" /\ pc' = "done")
           => \A now \in Clock : digest' = DigestAt(now)]_vars

\* C14, amended: the digest of a run has the year, the source and the
\* events_by_month of every run on the same document that reads another
\* wall-clock time; its last_updated is the wall-clock time the run read.
C14_SameContentAtAnyTime ==
    [][(pc = "parsed" /\ pc' = "done")
           => /\ \A now \in Clock : Content(digest') = Content(DigestAt(now))
              /\ digest'.last_updated \in Clock
              /\ digest' = DigestAt(digest'.last_updated)]_vars

\* a run that read the later time and made a digest with records
C14_Witness ==
    /\ pc = "done"
    /\ digest.last_updated = 2
    /\ digest.events_by_month # <<>>
    /\ digest # DigestAt(1)
    /\ Content(digest) = Content(DigestAt(1))

(***************************************************************************)
(* build_references_lookup on its own                                      *)
(***************************************************************************)

\* the most footnotes of a page
MaxFootnotes == 2

\* ids: the prefix and digits; digits and more; a name before the digits;
\* another prefix; the prefix not at the start
FootnoteIds ==
    { <<"cite_note-", "7">>,
      <<"cite_note-", "1", "8">>,
      <<"cite_note-", "7", "x">>,
      <<"cite_note-", "N", "-", "7">>,
      <<"cite_ref-", "7">>,
      <<"x", "cite_note-", "7">> }

\* the <cite> elements of a footnote: none, one, two
FootnoteCites == { <<>>, <<BBC>>, <<Reuters, BBC>> }

\* the <a> elements of a footnote
FootnoteLinks ==
    { <<>>,
      << [external |-> FALSE, href |-> <<"#cite_ref-7">>] >>,
      << [external |-> FALSE, href |-> <<"#cite_ref-7">>],
         [external |-> TRUE, href |-> <<>>],
         [external |-> TRUE, href |-> <<"https://bbc.com/x">>],
         [external |-> TRUE, href |-> <<"https://bbc.com/y">>] >> }

FootnoteItems ==
    { [id |-> id, cite |-> c, links |-> l] :
        id \in FootnoteIds, c \in FootnoteCites, l \in FootnoteLinks }

InitRefs ==
    /\ rf_footnotes \in SeqsUpTo(FootnoteItems, MaxFootnotes)
    /\ rf_refs = <<>>
    /\ pc = "start"
    /\ PipeIdle
    /\ DedupIdle
    /\ CleanIdle
    /\ HtmlIdle
    /\ PastIdle
    /\ NewsIdle

\* build_references_lookup(soup)
BuildReferences ==
    /\ pc = "start"
    /\ rf_refs' = build_references_lookup(rf_footnotes)
    /\ pc' = "built"
    /\ UNCHANGED <<pipe_vars, dd_vars, ce_vars, hg_vars, pe_vars, na_vars,
                   rf_footnotes>>

NextRefs == BuildReferences

SpecRefs == InitRefs /\ [][NextRefs]_vars

\* the id is the prefix 'cite_note-' followed by digits and nothing else
NumericSuffix(id) ==
    /\ Len(id) >= 2
    /\ id[1] = "cite_note-"
    /\ \A k \in 2..Len(id) : id[k] \in Digits

\* the id starts with the prefix 'cite_note-' and a digit
DigitAfterPrefix(id) ==
    Len(id) >= 2 /\ id[1] = "cite_note-" /\ id[2] \in Digits

\* the entry the claim gives the footnote f: the stripped text of its first
\* <cite>, the href of its first external link that has one
EntryOf(f) ==
    LET ext == {k \in 1..Len(f.links) :
                   f.links[k].external /\ f.links[k].href # <<>>}
    IN  [text |-> Strip(f.cite[1]),
         url |-> IF ext = {} THEN "None"
                 ELSE f.links[CHOOSE k \in ext : \A j \in ext : k <= j].href[1]]

\* C15, as claimed: the mapping has an entry for exactly the footnotes whose
\* id is 'cite_note-' with a numeric suffix and that hold a <cite>.
C15_EntriesOfNumericIds ==
    pc = "built" =>
        DOMAIN rf_refs =
            {rf_footnotes[i].id : i \in
                {j \in 1..Len(rf_footnotes) :
                    /\ NumericSuffix(rf_footnotes[j].id)
                    /\ rf_footnotes[j].cite # <<>>}}

\* C15, amended: the mapping has an entry for exactly the footnotes whose id
\* starts with 'cite_note-' and a digit, whatever follows, and that hold a
\* <cite>; the entry of an id is made of the last such footnote with that
\* id: the stripped text of its first <cite> and the href of its first
\* external link that has one, or None.
C15_EntriesOfDigitPrefixedIds ==
    pc = "built" =>
        LET ok == {j \in 1..Len(rf_footnotes) :
                      /\ DigitAfterPrefix(rf_footnotes[j].id)
                      /\ rf_footnotes[j].cite # <<>>}
        IN  /\ DOMAIN rf_refs = {rf_footnotes[j].id : j \in ok}
            /\ \A j \in ok :
                   (\A h \in ok : h > j => rf_footnotes[h].id # rf_footnotes[j].id)
                   => rf_refs[rf_footnotes[j].id] = EntryOf(rf_footnotes[j])

\* a footnote without <cite> is left out, one with an external link gets
\* its url and one without gets None
C15_Witness ==
    /\ pc = "built"
    /\ Len(rf_footnotes) = 2
    /\ \E j \in 1..2 :
           rf_footnotes[j].cite = <<>> /\ DigitAfterPrefix(rf_footnotes[j].id)
    /\ \E id \in DOMAIN rf_refs :
           /\ rf_refs[id].url # "None"
           /\ rf_refs[id].text = Strip(BBC)

\* fetch_page failed: requests.get gave no response, or one with an error
\* status
FetchFailed ==
    fetches > 0 /\ (response.error # "" \/ response.status \in 400..599)

\* C16: when fetch_page fails, scrape_and_save has called requests.get once
\* and makes no further step: parse_events and format_for_llm have not run,
\* no file is written, and the exception of fetch_page has left
\* scrape_and_save.
C16_FetchFailureIsFatal ==
    FetchFailed =>
        /\ pc = "failed"
        /\ ~ENABLED Next
        /\ fetches = 1
        /\ ul_list = <<>> /\ ref_lookup = <<>> /\ detached = {}
        /\ \A month \in MonthNames : by_month[month] = <<>>
        /\ digest = NoDigest
        /\ files = {}
        /\ exc \in {"ConnectionError", "HTTPError"}
        /\ exc = "HTTPError" <=> response.error = ""

\* the server answered 503 and the run has ended there
C16_Witness ==
    /\ pc = "failed"
    /\ response = [error |-> "", status |-> 503]
    /\ exc = "HTTPError"
    /\ soup.uls # <<>>

(***************************************************************************)
(* HTMLGenerator.generate_html                                             *)
(*                                                                         *)
(* The page is held by its length, which is all the token estimate reads.  *)
(* An article is [id |-> its id, chars |-> the characters its fields put   *)
(* into format_article's template: the date, the title, the tags, the      *)
(* summary, the url and the source].                                       *)
(***************************************************************************)

\* MAX_OUTPUT_TOKENS of config.py
MaxOutputTokens == 5000

\* the lengths of the fixed texts: generate_header, generate_intro without
\* its date, generate_toc without its items, an item of generate_toc
\* without its month, count and anchor, the heading of a month section
\* without its month and anchor, format_article without its fields, the
\* truncation notice, generate_footer
HeaderLen == 2034
IntroFixedLen == 546
TocFixedLen == 96
TocItemFixedLen == 49
SectionHeadFixedLen == 21
ArticleFixedLen == 303
NoticeLen == 127
FooterLen == 384

\* the most months of grouped_by_month and the most ids of a month
MaxMonths == 2
MaxPerMonth == 2

\* the month keys of grouped_by_month in their order, with their lengths
HtmlMonths ==
    << [name |-> "August 2025", len |-> 11],
       [name |-> "July 2025", len |-> 9],
       [name |-> "September 2024", len |-> 14] >>

\* the characters of an article's fields: articles of 100, 2000 and 3000
\* estimated tokens
ArticleChars == {97, 7697, 11697}

\* the ids listed in grouped_by_month; 9 is the id of no article
ListedIds == {1, 2, 3, 9}

\* data['articles']: empty, or the articles 1, 2 and 3
ArticleLists ==
    {<<>>} \cup { << [id |-> 1, chars |-> c], [id |-> 2, chars |-> d],
                     [id |-> 3, chars |-> e] >> :
                    c, d, e \in ArticleChars }

\* data['grouped_by_month']
GroupedByMonth ==
    UNION { { [k \in 1..n |-> [month |-> HtmlMonths[k], ids |-> ids[k]]] :
                ids \in [1..n -> SeqsUpTo(ListedIds, MaxPerMonth)] } :
            n \in 0..MaxMonths }

\* the lengths of datetime.now().strftime("%B %d, %Y"): May to September
DateLens == {12, 18}

\* HTMLGenerator.estimate_tokens on a text of n characters
estimate_tokens(n) == n \div 4

\* the length of generate_intro()
generate_intro(date_len) == IntroFixedLen + date_len

\* the number of digits of a count
RECURSIVE DigitsOf(_)
DigitsOf(n) == IF n < 10 THEN 1 ELSE 1 + DigitsOf(n \div 10)

\* the length of generate_toc(grouped_articles) from the k-th month on
RECURSIVE TocFrom(_, _)
TocFrom(grouped, k) ==
    IF k > Len(grouped) THEN 0
    ELSE TocItemFixedLen + 2 * grouped[k].month.len
         + DigitsOf(Len(grouped[k].articles)) + TocFrom(grouped, k + 1)

generate_toc(grouped) == TocFixedLen + TocFrom(grouped, 1)

\* the length of format_article(article)
format_article(article) == ArticleFixedLen + article.chars

\* the loop of generate_month_section from the i-th article on
RECURSIVE SectionFrom(_, _, _, _, _)
SectionFrom(articles, i, html, token_count, emitted) ==
    IF i > Len(articles)
    THEN [html |-> html, token_count |-> token_count, emitted |-> emitted]
    ELSE LET article_html == format_article(articles[i])
         IN  IF token_count + estimate_tokens(article_html) > MaxOutputTokens
             THEN [html |-> html + NoticeLen, token_count |-> token_count,
                   emitted |-> emitted]
             ELSE SectionFrom(articles, i + 1, html + article_html,
                              token_count + estimate_tokens(article_html),
                              Append(emitted, articles[i].id))

\* HTMLGenerator.generate_month_section: the length of its html, the new
\* token_count and the ids of the articles it put into html
generate_month_section(month, articles, token_count) ==
    SectionFrom(articles, 1, SectionHeadFixedLen + 2 * month.len,
                token_count, <<>>)

\* lines 217-222: the articles by id, and the articles of each month whose
\* id is known
GroupedArticles(data) ==
    LET known == {data.articles[k].id : k \in 1..Len(data.articles)}
        by_id(aid) ==
            data.articles[CHOOSE k \in 1..Len(data.articles) :
                /\ data.articles[k].id = aid
                /\ \A j \in 1..Len(data.articles) :
                       data.articles[j].id = aid => j <= k]
    IN  [m \in 1..Len(data.grouped_by_month) |->
            [month |-> data.grouped_by_month[m].month,
             articles |->
                 LET ids == SelectSeq(data.grouped_by_month[m].ids,
                                      LAMBDA aid : aid \in known)
                 IN  [k \in 1..Len(ids) |-> by_id(ids[k])]]]

InitHtml ==
    /\ hg_data \in [articles : ArticleLists, grouped_by_month : GroupedByMonth]
    /\ hg_date_len \in DateLens
    /\ hg_grouped = <<>>
    /\ hg_pos = 1
    /\ hg_token_count = 0
    /\ hg_html = 0
    /\ hg_emitted = <<>>
    /\ hg_out = 0
    /\ hg_file = <<>>
    /\ pc = "start"
    /\ PipeIdle
    /\ DedupIdle
    /\ CleanIdle
    /\ RefsIdle
    /\ PastIdle
    /\ NewsIdle

\* lines 212-214: no article, "" is returned and no file is written
GenerateNothing ==
    /\ pc = "start"
    /\ hg_data.articles = <<>>
    /\ hg_out' = 0
    /\ pc' = "returned"
    /\ UNCHANGED <<pipe_vars, dd_vars, ce_vars, rf_vars, pe_vars, na_vars,
                   hg_data,
                   hg_date_len, hg_grouped, hg_pos, hg_token_count, hg_html,
                   hg_emitted, hg_file>>

\* lines 216-229: grouped_articles, then the header, the introduction and
\* the table of contents
GenerateBegin ==
    /\ pc = "start"
    /\ hg_data.articles # <<>>
    /\ hg_grouped' = GroupedArticles(hg_data)
    /\ hg_html' = HeaderLen + generate_intro(hg_date_len)
                    + generate_toc(GroupedArticles(hg_data))
    /\ hg_pos' = 1
    /\ pc' = "months"
    /\ UNCHANGED <<pipe_vars, dd_vars, ce_vars, rf_vars, pe_vars, na_vars,
                   hg_data,
                   hg_date_len, hg_token_count, hg_emitted, hg_out, hg_file>>

\* one pass of the loop of lines 232-235
MonthSection ==
    /\ pc = "months"
    /\ hg_pos <= Len(hg_grouped)
    /\ hg_token_count < MaxOutputTokens
    /\ LET section == generate_month_section(hg_grouped[hg_pos].month,
                                             hg_grouped[hg_pos].articles,
                                             hg_token_count)
       IN  /\ hg_html' = hg_html + section.html
           /\ hg_token_count' = section.token_count
           /\ hg_emitted' =
                  hg_emitted \o [k \in 1..Len(section.emitted) |->
                                    <<hg_pos, section.emitted[k]>>]
    /\ hg_pos' = hg_pos + 1
    /\ UNCHANGED <<pipe_vars, dd_vars, ce_vars, rf_vars, pe_vars, na_vars,
                   hg_data,
                   hg_date_len, hg_grouped, hg_out, hg_file, pc>>

\* the loop ends, by exhaustion or by the break of line 234; lines 237-246:
\* the footer, the write and the return
GenerateEnd ==
    /\ pc = "months"
    /\ hg_pos > Len(hg_grouped) \/ hg_token_count >= MaxOutputTokens
    /\ hg_html' = hg_html + FooterLen
    /\ hg_file' = Append(hg_file, hg_html + FooterLen)
    /\ hg_out' = hg_html + FooterLen
    /\ pc' = "returned"
    /\ UNCHANGED <<pipe_vars, dd_vars, ce_vars, rf_vars, pe_vars, na_vars,
                   hg_data,
                   hg_date_len, hg_grouped, hg_pos, hg_token_count,
                   hg_emitted>>

NextHtml == GenerateNothing \/ GenerateBegin \/ MonthSection \/ GenerateEnd

SpecHtml == InitHtml /\ [][NextHtml]_vars

\* C17: the estimated token size of the whole document generate_html
\* returns, header, introduction, table of contents, notices and footer
\* included, is at most max_tokens.
C17_DocumentWithinBudget ==
    pc = "returned" => estimate_tokens(hg_out) <= MaxOutputTokens

\* what the budget does bound: the sum of the estimates of the articles put
\* into the document
C17_ArticlesWithinBudget ==
    hg_token_count <= MaxOutputTokens

\* t is non-empty, has no whitespace at its ends and no two whitespace
\* characters in a row, and starts with the name of month, a space and a
\* digit
WellFormed(t, month) ==
    LET name == MonthChars[month_map(month)]
        w == Len(name) + 1
    IN  /\ t # <<>>
        /\ t[1] \notin Whitespace
        /\ t[Len(t)] \notin Whitespace
        /\ \A i \in 1..(Len(t) - 1) :
               ~(t[i] \in Whitespace /\ t[i + 1] \in Whitespace)
        /\ HasAt(t, 1, name)
        /\ Len(t) > w
        /\ t[w] = " "
        /\ t[w + 1] \in Digits

\* C18: every record of the output of parse_events and of the digest has a
\* text that is non-empty, trimmed, without a run of whitespace, and that
\* starts with the month name of its bucket, a space and a digit.
C18_RecordInvariant ==
    /\ \A pl \in Places : WellFormed(by_month[pl[1]][pl[2]].text, pl[1])
    /\ \A pl \in DigestPlaces : WellFormed(DigestText(pl), DigestMonth(pl[1]))

\* a record of the digest made from an item whose text starts with
\* whitespace and has two spaces between the month and the day
C18_Witness ==
    /\ pc = "done"
    /\ \E pl \in Places :
           LET raw == RawText(origin[pl[1]][pl[2]])
               t == by_month[pl[1]][pl[2]].text
           IN  /\ raw[1] \in Whitespace
               /\ \E i \in 1..(Len(raw) - 1) :
                      raw[i] = " " /\ raw[i + 1] = " "
               /\ \E dp \in DigestPlaces : DigestText(dp) = t

\* the digit run that follows the month name at the start of t
DayToken(t) == DateMatch(t).day

\* C19, as claimed: in every record of the output of parse_events the digit
\* run after the month name has one or two digits and denotes a day from 1
\* to 31.
C19_DayWithinRange ==
    \A pl \in Places :
        LET day == DayToken(by_month[pl[1]][pl[2]].text)
        IN  /\ Len(day) \in 1..2
            /\ ToInt(day) \in 1..31

\* C19, amended: in every record of the output of parse_events the digit
\* run after the month name has at least one digit; when it has at most two
\* significant digits that denote a day of that month in 2025, the date is
\* on or before August 25; any other run that fits a C int, such as 30 for
\* February, 100 or 0, is kept as it is.
C19_DayTokenKept ==
    /\ \A pl \in Places :
           LET t == by_month[pl[1]][pl[2]].text
           IN  /\ Len(DayToken(t)) >= 1
               /\ ~DigitsGreater(Significant(DayToken(t)), IntMaxDigits)
               /\ ValidDate(t) => PastDate(t)
    /\ pc \in {"parsed", "done", "saved"} =>
           \A li \in Items :
               (/\ ~Excluded(ListOf(li))
                /\ DateMatch(ItemText(li)).matched
                /\ ~ValidDate(ItemText(li)))
               => HasRecord(li)

\* a record whose day token has three digits
C19_Witness ==
    /\ pc = "parsed"
    /\ \E pl \in Places :
           /\ pl[1] = "March"
           /\ Len(DayToken(by_month[pl[1]][pl[2]].text)) = 3

(***************************************************************************)
(* is_past_event on its own                                                *)
(***************************************************************************)

\* the digit runs after the month name
DayTokens ==
    { <<"0">>, <<"1">>, <<"0", "5">>, <<"2", "5">>, <<"2", "6">>,
      <<"2", "9">>, <<"3", "0">>, <<"3", "1">>, <<"3", "2">>,
      <<"1", "0", "0">>,
      <<"2", "1", "4", "7", "4", "8", "3", "6", "4", "7">>,
      <<"2", "1", "4", "7", "4", "8", "3", "6", "4", "8">> }

\* texts with a month name, whitespace or none, and a digit run; texts
\* without a leading Month Day token
PastTexts ==
    { MonthChars[k] \o sep \o day \o <<"-", "1", "7", ":", " ", "x">> :
        k \in 1..12, sep \in {<<" ">>, <<"\n", " ">>, <<>>},
        day \in DayTokens }
    \cup { <<>>, Treaty, <<" ">> \o Aug26, Lower(Aug26) }

InitPast ==
    /\ pe_year \in Years
    /\ pe_now \in Clock
    /\ pe_text \in PastTexts
    /\ pe_result = [raised |-> "", value |-> FALSE]
    /\ pc = "start"
    /\ PipeIdle
    /\ DedupIdle
    /\ CleanIdle
    /\ RefsIdle
    /\ HtmlIdle
    /\ NewsIdle

\* self.is_past_event(event_text) of a scraper of pe_year, at pe_now
IsPastEvent ==
    /\ pc = "start"
    /\ pe_result' = is_past_event(pe_text)
    /\ pc' = "decided"
    /\ UNCHANGED <<pipe_vars, dd_vars, ce_vars, rf_vars, hg_vars, na_vars,
                   pe_year, pe_now, pe_text>>

NextPast == IsPastEvent

SpecPast == InitPast /\ [][NextPast]_vars

\* what the claim gives for t: no leading Month Day token, or no valid day
\* of that month in 2025, or on or before August 25
ClaimedPast(t) ==
    \/ ~DateMatch(t).matched
    \/ ~ValidDate(t)
    \/ PastDate(t)

\* C20: for every year of the scraper and every wall-clock time,
\* is_past_event(text) returns, and returns true exactly when the text has
\* no leading Month Day token, or the day is no valid day of that month in
\* 2025, or the date is on or before August 25.
C20_FixedReferenceDate ==
    pc = "decided" =>
        /\ pe_result.raised = ""
        /\ pe_result.value = ClaimedPast(pe_text)

\* C20 for the calls that return: the decision is the claimed one
C20_FixedReferenceDateOnReturn ==
    (pc = "decided" /\ pe_result.raised = "") =>
        pe_result.value = ClaimedPast(pe_text)


(***************************************************************************)
(* Citations of an item and of the items nested in it                      *)
(***************************************************************************)

\* the item d lies in a list nested, at any depth, in the item li
NestedIn(d, li) ==
    /\ Len(d) > Len(li)
    /\ SubSeq(d, 1, Len(li)) = li

\* the citations of the record at place pl, as a set
CitationSet(pl) ==
    LET cs == by_month[pl[1]][pl[2]].citations
    IN  {cs[j] : j \in 1..Len(cs)}

\* the resolved citations of the anchors of the item d, those of the items
\* nested in d included, as a set
ResolvedSet(d) ==
    LET rc == ResolvedCitations(d)
    IN  {rc[j] : j \in 1..Len(rc)}

\* C21: the citations of every record hold the resolved citation of every
\* reference anchor inside its item, those of its nested items included;
\* the record's text holds no text of a nested list; and when a nested item
\* has a record of its own, every citation of that record is on the parent's
\* record too.
C21_CitationsBeforeDetach ==
    \A pl \in Places :
        LET li == origin[pl[1]][pl[2]]
        IN  /\ \A d \in Items :
                   NestedIn(d, li) => ResolvedSet(d) \subseteq CitationSet(pl)
            /\ ResolvedSet(li) \subseteq CitationSet(pl)
            /\ by_month[pl[1]][pl[2]].text = OwnText(li)
            /\ \A pn \in Places :
                   NestedIn(origin[pn[1]][pn[2]], li)
                       => CitationSet(pn) \subseteq CitationSet(pl)

\* C21 without its clause on the text: the citations of nested anchors are
\* on the parent's record, and on the nested item's record when it has one
C21_NestedCitationsOnBothRecords ==
    \A pl \in Places :
        LET li == origin[pl[1]][pl[2]]
        IN  /\ \A d \in Items :
                   NestedIn(d, li) => ResolvedSet(d) \subseteq CitationSet(pl)
            /\ ResolvedSet(li) \subseteq CitationSet(pl)
            /\ \A pn \in Places :
                   NestedIn(origin[pn[1]][pn[2]], li)
                       => /\ CitationSet(pn) \subseteq CitationSet(pl)
                          /\ CitationSet(pn) = ResolvedSet(origin[pn[1]][pn[2]])

\* a parent record and a nested record that share a citation whose anchor
\* is only inside the nested item
C21_SharedCitation ==
    \E pl \in Places, pn \in Places :
        LET li == origin[pl[1]][pl[2]]
            d == origin[pn[1]][pn[2]]
        IN  /\ NestedIn(d, li)
            /\ LiAt(soup.uls, li).sups = <<>>
            /\ CitationSet(pn) # {}
            /\ CitationSet(pn) \subseteq CitationSet(pl)
            /\ by_month[pl[1]][pl[2]].text = OwnText(li)


(***************************************************************************)
(* The order of what the budget leaves out                                 *)
(***************************************************************************)

\* the ids of the articles of the m-th month section put into the document
EmittedIn(m) ==
    LET es == SelectSeq(hg_emitted, LAMBDA e : e[1] = m)
    IN  [k \in 1..Len(es) |-> es[k][2]]

\* the ids of the articles of the m-th month, in their order
ArticleIds(m) ==
    [k \in 1..Len(hg_grouped[m].articles) |-> hg_grouped[m].articles[k].id]

\* an article of the m-th month is not in the document
LeftOut(m) == Len(EmittedIn(m)) < Len(ArticleIds(m))

\* C22: when generate_html has returned, the articles of each month that
\* are in the document are the first ones of that month, and once an
\* article of a month is left out no article of a later month section is in
\* the document.
C22_TruncationIsPrefix ==
    pc = "returned" =>
        \A m \in 1..Len(hg_grouped) :
            /\ Len(EmittedIn(m)) <= Len(ArticleIds(m))
            /\ EmittedIn(m) = SubSeq(ArticleIds(m), 1, Len(EmittedIn(m)))
            /\ LeftOut(m) =>
                   \A n \in (m + 1)..Len(hg_grouped) : EmittedIn(n) = <<>>

\* C22 within one month section: the articles of a month that are in the
\* document are the first ones of that month
C22_PrefixWithinMonth ==
    pc = "returned" =>
        \A m \in 1..Len(hg_grouped) :
            /\ Len(EmittedIn(m)) <= Len(ArticleIds(m))
            /\ EmittedIn(m) = SubSeq(ArticleIds(m), 1, Len(EmittedIn(m)))


(***************************************************************************)
(* NewsAggregator.fetch_all_sources and fetch_rss_feed                     *)
(*                                                                         *)
(* An entry of a parsed feed is [link |-> its link, "" when it has none,   *)
(* date |-> "parsed" when published_parsed or updated_parsed holds a time, *)
(* "unparsed" when published_parsed is there and holds None, "absent" when *)
(* the entry has neither, age |-> the days from that time to now,          *)
(* title |-> whether the entry has a title].                               *)
(***************************************************************************)

\* the feeds fetch_all_sources goes through, and the entries of a feed
MaxFeeds == 2
MaxEntries == 2

\* timedelta(days=365)
YearDays == 365

NoLink == ""

Entry(link, date, age, title) ==
    [link |-> link, date |-> date, age |-> age, title |-> title]

FeedEntries ==
    { Entry("u1", "parsed", 1, TRUE),
      Entry("u1", "unparsed", 0, TRUE),
      Entry("u1", "absent", 0, TRUE),
      Entry("u2", "parsed", 2, TRUE),
      Entry("u2", "parsed", 400, TRUE),
      Entry("u2", "parsed", 1, FALSE),
      Entry(NoLink, "parsed", 1, TRUE) }

\* the exception one pass of the loop of lines 23-56 raises on the entry,
\* "" when it raises none: entry.link at line 25, time.mktime(None) at
\* line 33, entry.title at line 45
EntryRaises(entry, seen) ==
    IF entry.link = NoLink THEN "AttributeError"
    ELSE IF entry.link \in seen THEN ""
    ELSE IF entry.date = "unparsed" THEN "TypeError"
    ELSE IF entry.age > YearDays THEN ""
    ELSE IF ~entry.title THEN "AttributeError"
    ELSE ""

\* the pass reaches self.seen_urls.add(entry.link) at line 28
EntryMarked(entry, seen) ==
    entry.link # NoLink /\ entry.link \notin seen

\* the pass ends at the continue of line 41
EntryRejected(entry, seen) ==
    /\ EntryMarked(entry, seen)
    /\ entry.date # "unparsed"
    /\ entry.age > YearDays

\* the pass reaches articles.append(article) at line 55
EntryAppended(entry, seen) ==
    /\ EntryMarked(entry, seen)
    /\ EntryRaises(entry, seen) = ""
    /\ ~EntryRejected(entry, seen)

\* all_articles.sort(key=lambda x: x['published'], reverse=True): newest
\* first, articles of one time in the order they had
RECURSIVE SortNewestFirst(_)
SortNewestFirst(articles) ==
    IF articles = <<>> THEN <<>>
    ELSE LET n == Len(articles)
             rest == SortNewestFirst(SubSeq(articles, 1, n - 1))
             x == articles[n]
             before == SelectSeq(rest, LAMBDA a : a.age <= x.age)
             after == SelectSeq(rest, LAMBDA a : a.age > x.age)
         IN  before \o <<x>> \o after

InitNews ==
    /\ na_sources \in [1..MaxFeeds -> SeqsUpTo(FeedEntries, MaxEntries)]
    /\ na_feed_pos = 1
    /\ na_entry_pos = 1
    /\ seen_urls = {}
    /\ na_before = {}
    /\ na_articles = <<>>
    /\ na_rejected = {}
    /\ na_result = NoResult
    /\ all_articles = <<>>
    /\ pc = "start"
    /\ PipeIdle
    /\ DedupIdle
    /\ CleanIdle
    /\ RefsIdle
    /\ HtmlIdle
    /\ PastIdle

\* fetch_all_sources calls fetch_rss_feed on the next feed: lines 20-21
FetchRssFeed ==
    /\ pc = "start"
    /\ na_feed_pos <= Len(na_sources)
    /\ na_before' = seen_urls
    /\ na_articles' = <<>>
    /\ na_entry_pos' = 1
    /\ pc' = "entries"
    /\ UNCHANGED <<pipe_vars, dd_vars, ce_vars, rf_vars, hg_vars, pe_vars,
                   na_sources, na_feed_pos, seen_urls, na_rejected,
                   na_result, all_articles>>

\* one pass of the loop of lines 23-56; an exception goes to the handler of
\* lines 59-61, which returns [] to line 71 of fetch_all_sources
FetchEntry ==
    /\ pc = "entries"
    /\ na_entry_pos <= Len(na_sources[na_feed_pos])
    /\ LET entry == na_sources[na_feed_pos][na_entry_pos]
       IN  /\ seen_urls' =
                  IF EntryMarked(entry, seen_urls)
                  THEN seen_urls \cup {entry.link} ELSE seen_urls
           /\ na_rejected' =
                  IF EntryRejected(entry, seen_urls)
                  THEN na_rejected \cup {entry.link} ELSE na_rejected
           /\ IF EntryRaises(entry, seen_urls) # ""
              THEN /\ na_result' = [error |-> TRUE, articles |-> <<>>]
                   /\ na_articles' = <<>>
                   /\ na_feed_pos' = na_feed_pos + 1
                   /\ na_entry_pos' = 1
                   /\ pc' = "start"
              ELSE /\ na_articles' =
                          IF EntryAppended(entry, seen_urls)
                          THEN Append(na_articles,
                                      [url |-> entry.link, age |-> entry.age,
                                       feed |-> na_feed_pos])
                          ELSE na_articles
                   /\ na_entry_pos' = na_entry_pos + 1
                   /\ UNCHANGED <<na_result, na_feed_pos, pc>>
    /\ UNCHANGED <<pipe_vars, dd_vars, ce_vars, rf_vars, hg_vars, pe_vars,
                   na_sources, na_before, all_articles>>

\* the loop ends: return articles at line 57, all_articles.extend at
\* line 72
FetchRssReturn ==
    /\ pc = "entries"
    /\ na_entry_pos > Len(na_sources[na_feed_pos])
    /\ na_result' = [error |-> FALSE, articles |-> na_articles]
    /\ all_articles' = all_articles \o na_articles
    /\ na_articles' = <<>>
    /\ na_feed_pos' = na_feed_pos + 1
    /\ na_entry_pos' = 1
    /\ pc' = "start"
    /\ UNCHANGED <<pipe_vars, dd_vars, ce_vars, rf_vars, hg_vars, pe_vars,
                   na_sources, seen_urls, na_before, na_rejected>>

\* every feed is done: the sort of line 79 and the return of line 81
FetchAllReturn ==
    /\ pc = "start"
    /\ na_feed_pos > Len(na_sources)
    /\ all_articles' = SortNewestFirst(all_articles)
    /\ pc' = "returned"
    /\ UNCHANGED <<pipe_vars, dd_vars, ce_vars, rf_vars, hg_vars, pe_vars,
                   na_sources, na_feed_pos, na_entry_pos, seen_urls,
                   na_before, na_articles, na_rejected, na_result>>

NextNews == FetchRssFeed \/ FetchEntry \/ FetchRssReturn \/ FetchAllReturn

SpecNews == InitNews /\ [][NextNews]_vars

\* the urls of the articles fetch_rss_feed has returned so far
ReturnedUrls == {all_articles[k].url : k \in 1..Len(all_articles)}

\* the last call of fetch_rss_feed has ended in the handler
CallFailed == pc \in {"start", "returned"} /\ na_result.error

\* C23: when a call of fetch_rss_feed has hit an exception and returned [],
\* seen_urls is what it was when the call began; and between calls every
\* url in seen_urls is the url of a returned article or of one rejected as
\* older than a year.
C23_SeenUnchangedOnError ==
    /\ CallFailed => seen_urls = na_before
    /\ pc \in {"start", "returned"} =>
           seen_urls \subseteq ReturnedUrls \cup na_rejected

\* what holds for the calls that end without an exception: every url the
\* call marked is the url of an article it returned or rejected
C23_SeenOnSuccess ==
    (pc \in {"start", "returned"} /\ ~na_result.error) =>
        seen_urls \ na_before \subseteq ReturnedUrls \cup na_rejected

\* a call that failed on its second entry after it had marked its first
C23_FailedPartWay ==
    /\ CallFailed
    /\ seen_urls # na_before
    /\ pc = "returned"
    /\ \E f \in 1..Len(na_sources) : \E k \in 1..Len(na_sources[f]) :
           /\ na_sources[f][k].link \in seen_urls \ ReturnedUrls
           /\ na_sources[f][k].date = "parsed"
           /\ na_sources[f][k].age <= YearDays
           /\ na_sources[f][k].title

=============================================================================
